---- MODULE Spec2Model ----
(***************************************************************************)
(* The ChocoPy type checker (compiler/typechecker.py): the type lattice    *)
(* (isSubClass, isSubtype, canAssign, join), the class registry and scope  *)
(* stack, the error collector, the declaration pass of Program and the     *)
(* per-node rules of the walker.                                           *)
(***************************************************************************)
EXTENDS Integers, Sequences, FiniteSets, TLC

VARIABLES
    superclasses,   \* self.superclasses : class name -> superclass name (defaultdict)
    classes,        \* self.classes : class name -> (member name -> symbol type)
    symbolTable,    \* self.symbolTable : stack of frames, name -> symbol type
    errors,         \* self.errors : the checker's own list of messages
    progErrors,     \* self.program.errors.errors : CompilerError(location, message)
    errorMsg,       \* node -> node.errorMsg, for the nodes that carry one
    declarations,   \* node.declarations of the Program processed so far
    currentClass,   \* self.currentClass
    expReturnType,  \* self.expReturnType
    nStatements,    \* len(node.statements) of the Program
    statements,     \* the statements of node.statements visited so far
    pc,             \* position of the walker inside Program
    next,           \* index of the next declaration of the second loop
    last,           \* the expression node the walker applied a rule to last
    annotated       \* None on the first pass; on a second pass, the AST the
                    \* first pass has left and its count of diagnostics

vars == <<superclasses, classes, symbolTable, errors, progErrors, errorMsg,
          currentClass, expReturnType, declarations, nStatements,
          statements, pc, next, last, annotated>>

----------------------------------------------------------------------------
(* Bounds of the model *)

MaxClassDecls == 3   \* declarations of a program made of class definitions
MaxDecls == 2        \* declarations of a program with every kind of declaration
MaxStmts == 1        \* top-level statements of a program
MaxListDepth == 1    \* nesting of list types
MaxFuncDecls == 2    \* declarations of a program made of functions
MaxMemberDecls == 3  \* declarations of a program made of classes with members

UserClasses == {"A", "B", "C"}

----------------------------------------------------------------------------
(* Values *)

\* Python's None in a slot that holds a symbol type
None == [kind |-> "None"]
\* Python's None in a slot that holds a class name
NoClass == "None"
\* the outcome of a call that does not return
Diverges == [kind |-> "diverges"]

ClassValueType(n) == [kind |-> "class", className |-> n]
ListValueType(t) == [kind |-> "list", elementType |-> t]
FuncType(ps, r) == [kind |-> "func", parameters |-> ps, returnType |-> r]

isClassValueType(t) == t.kind = "class"
isListValueType(t) == t.kind = "list"
isFuncType(t) == t.kind = "func"
isValueType(t) == t.kind \in {"class", "list"}

ObjectType == ClassValueType("object")
IntType == ClassValueType("int")
StrType == ClassValueType("str")
BoolType == ClassValueType("bool")
NoneType == ClassValueType("<none>")
EmptyType == ClassValueType("<empty>")

OBJECT_TYPE == ObjectType
INT_TYPE == IntType
STR_TYPE == StrType
BOOL_TYPE == BoolType
NONE_TYPE == NoneType
EMPTY_TYPE == EmptyType

\* a read of a defaultdict(lambda: None)
Lookup(d, k) == IF k \in DOMAIN d THEN d[k] ELSE None
LookupClass(d, k) == IF k \in DOMAIN d THEN d[k] ELSE NoClass
\* the key a read of a defaultdict leaves behind
Touch(d, k) == IF k \in DOMAIN d THEN d ELSE d @@ (k :> None)
Bind(d, k, v) == [x \in DOMAIN d \cup {k} |-> IF x = k THEN v ELSE d[x]]

----------------------------------------------------------------------------
(* The value types the lattice operations are applied to *)

ClassNames == {"object", "int", "bool", "str", "<none>", "<empty>"} \cup UserClasses

RECURSIVE TypesUpTo(_)
TypesUpTo(d) ==
    IF d = 0 THEN {ClassValueType(n) : n \in ClassNames}
    ELSE LET S == TypesUpTo(d - 1) IN S \cup {ListValueType(t) : t \in S}

Types == TypesUpTo(MaxListDepth)

----------------------------------------------------------------------------
(* TYPE HIERARCHY UTILS *)

\* isSubClass with the loop cut after the direct superclass
isSubClassOneStep(curr, b, seen) ==
    IF curr = NoClass THEN "False"
    ELSE IF curr = b \/ LookupClass(superclasses, curr) = b THEN "True"
    ELSE "False"

\* the while loop of isSubClass: "True", "False", or "diverges" when curr
\* comes back to a class it has left without meeting b
RECURSIVE isSubClassLoop(_, _, _)
isSubClassLoop(curr, b, seen) ==
    IF curr = NoClass THEN "False"
    ELSE IF curr = b THEN "True"
    ELSE IF curr \in seen THEN "diverges"
    ELSE isSubClassLoop(LookupClass(superclasses, curr), b, seen \cup {curr})

isSubClassRun(a, b) == isSubClassLoop(a, b, {})
isSubClass(a, b) == isSubClassRun(a, b) = "True"

isSubtypeRun(a, b) ==
    IF b = OBJECT_TYPE THEN "True"
    ELSE IF isClassValueType(a) /\ isClassValueType(b)
         THEN isSubClassRun(a.className, b.className)
    ELSE IF a = b THEN "True" ELSE "False"

isSubtype(a, b) == isSubtypeRun(a, b) = "True"

\* canAssign with lists made covariant in every element type
RECURSIVE canAssignCovariant(_, _)
canAssignCovariant(a, b) ==
    LET s == isSubtypeRun(a, b) IN
    IF s # "False" THEN s
    ELSE IF a = NONE_TYPE /\ b \notin {INT_TYPE, STR_TYPE, BOOL_TYPE} THEN "True"
    ELSE IF isListValueType(b) /\ a = EMPTY_TYPE THEN "True"
    ELSE IF isListValueType(b) /\ isListValueType(a)
         THEN canAssignCovariant(a.elementType, b.elementType)
    ELSE "False"

RECURSIVE canAssignRun(_, _)
canAssignRun(a, b) ==
    LET s == isSubtypeRun(a, b) IN
    IF s # "False" THEN s
    ELSE IF a = NONE_TYPE /\ b \notin {INT_TYPE, STR_TYPE, BOOL_TYPE} THEN "True"
    ELSE IF isListValueType(b) /\ a = EMPTY_TYPE THEN "True"
    ELSE IF isListValueType(b) /\ isListValueType(a) /\ a.elementType = NONE_TYPE
         THEN canAssignRun(a.elementType, b.elementType)
    ELSE "False"

canAssign(a, b) == canAssignRun(a, b) = "True"

\* the two while loops of join that collect the ancestors of a class
RECURSIVE ancestorsLoop(_, _)
ancestorsLoop(c, seen) ==
    LET s == LookupClass(superclasses, c) IN
    IF s = NoClass THEN <<>>
    ELSE IF s \in seen THEN <<"diverges">>
    ELSE <<s>> \o ancestorsLoop(s, seen \cup {s})

ancestors(c) == ancestorsLoop(c, {c})
ancestorsDiverge(c) ==
    LET p == ancestors(c) IN Len(p) > 0 /\ p[Len(p)] = "diverges"

\* the key self.superclasses is read with for the type t
KeyOf(t) == IF isClassValueType(t) THEN t.className ELSE NoClass

Reverse(s) == [i \in 1..Len(s) |-> s[Len(s) + 1 - i]]
Min(x, y) == IF x < y THEN x ELSE y

\* s[i] with Python's 0-based index, negative indices counting from the end
PyIndex(s, i) == IF i >= 0 THEN s[i + 1] ELSE s[Len(s) + i + 1]

\* the final for loop of join over the reversed ancestor lists
joinLoop(aAncestors, bAncestors) ==
    LET n == Min(Len(aAncestors), Len(bAncestors))
        diff == {i \in 0..(n - 1) : PyIndex(aAncestors, i) # PyIndex(bAncestors, i)}
    IN  IF diff = {} THEN OBJECT_TYPE
        ELSE LET i == CHOOSE k \in diff : \A m \in diff : k <= m
             IN  ClassValueType(PyIndex(aAncestors, i - 1))

RECURSIVE join(_, _)
join(a, b) ==
    IF canAssignRun(a, b) = "diverges" THEN Diverges
    ELSE IF canAssign(a, b) THEN b
    ELSE IF canAssignRun(b, a) = "diverges" THEN Diverges
    ELSE IF canAssign(b, a) THEN a
    ELSE IF isListValueType(b) /\ isListValueType(a)
         THEN LET j == join(b.elementType, a.elementType)
              IN  IF j = Diverges THEN Diverges ELSE ListValueType(j)
    ELSE IF isListValueType(b) \/ isListValueType(a) THEN OBJECT_TYPE
    ELSE IF ancestorsDiverge(KeyOf(a)) \/ ancestorsDiverge(KeyOf(b))
         THEN Diverges
    ELSE LET aAncestors == ancestors(KeyOf(a)) \o ancestors(KeyOf(b))
             bAncestors == <<>>
         IN  joinLoop(Reverse(aAncestors), Reverse(bAncestors))


----------------------------------------------------------------------------
(* The checker's mutable state, threaded through a handler; raised is set  *)
(* when an exception leaves the handler                                    *)

Self ==
    [classes |-> classes, symbolTable |-> symbolTable, errors |-> errors,
     progErrors |-> progErrors, errorMsg |-> errorMsg,
     currentClass |-> currentClass, expReturnType |-> expReturnType,
     raised |-> FALSE]

Store(W) ==
    /\ classes' = W.classes
    /\ symbolTable' = W.symbolTable
    /\ errors' = W.errors
    /\ progErrors' = W.progErrors
    /\ errorMsg' = W.errorMsg
    /\ currentClass' = W.currentClass
    /\ expReturnType' = W.expReturnType

----------------------------------------------------------------------------
(* AST nodes *)

\* a node is named by its place in the Program; its location is that place
Node(root, index, part) == [root |-> root, index |-> index, part |-> part]
IdentifierOf(i) == Node("declarations", i, "identifier")
SuperclassOf(i) == Node("declarations", i, "superclass")
AnnotationOf(i) == Node("declarations", i, "type")
DeclOf(i) == Node("declarations", i, "node")
ExprOf(j) == Node("statements", j, "expr")

\* the nodes below the declaration with index p: its k-th declaration has
\* index Child(p, k), and so have its k-th parameter and its k-th statement
Child(p, k) == p * 10 + k
ParamOf(p, k) == Node("params", Child(p, k), "identifier")
ParamTypeOf(p, k) == Node("params", Child(p, k), "type")
StmtOf(p, k) == Node("body", Child(p, k), "node")
StmtPartOf(p, k, part) == Node("body", Child(p, k), part)

\* decls is the class body
ClassDef(name, superclass, decls) ==
    [kind |-> "ClassDef", name |-> name, superclass |-> superclass,
     declarations |-> decls]
\* returnType is the class name of a ClassType annotation
FuncDef(name, returnType, isMethod, params, decls, stmts) ==
    [kind |-> "FuncDef", name |-> name, returnType |-> returnType,
     isMethod |-> isMethod, params |-> params, declarations |-> decls,
     statements |-> stmts]
\* a parameter, a TypedVar with a ClassType annotation
Param(name, type) == [name |-> name, type |-> type]
\* a variable with a ClassType annotation; value is value.inferredType
VarDef(name, type, value) ==
    [kind |-> "VarDef", name |-> name, type |-> type, value |-> value]
NonLocalDeclNode(name) == [kind |-> "NonLocalDecl", name |-> name]
GlobalDeclNode(name) == [kind |-> "GlobalDecl", name |-> name]

\* statements of a function body; a statement's rule reads the fields its
\* children carry (inferredType, isReturn) and does not visit them
\* an expression statement whose expression is the Identifier name
IdentifierNode(name) == [kind |-> "Identifier", name |-> name]
\* an assignment to the Identifier name, whose inferredType is type
AssignStmtNode(name, type, value) ==
    [kind |-> "AssignStmt", name |-> name, type |-> type, value |-> value]
\* value is value.inferredType, or None for a return without a value
ReturnStmtNode(value) == [kind |-> "ReturnStmt", value |-> value]
\* thenBody and elseBody hold the isReturn flag of each statement
IfStmtNode(condition, thenBody, elseBody) ==
    [kind |-> "IfStmt", condition |-> condition, thenBody |-> thenBody,
     elseBody |-> elseBody]
\* body holds the isReturn flag of each statement
WhileStmtNode(condition, body) ==
    [kind |-> "WhileStmt", condition |-> condition, body |-> body]
\* iterable and identifier are the inferredType of the two children
ForStmtNode(identifier, iterable, body) ==
    [kind |-> "ForStmt", identifier |-> identifier, iterable |-> iterable,
     body |-> body]

----------------------------------------------------------------------------
(* SCOPES *)

enterScope(W) == [W EXCEPT !.symbolTable = Append(@, <<>>)]
\* exitScope popping the frame below the top one as well
exitScopeTwice(W) == [W EXCEPT !.symbolTable = SubSeq(@, 1, Len(@) - 2)]
exitScope(W) == [W EXCEPT !.symbolTable = SubSeq(@, 1, Len(@) - 1)]

addType(W, var, t) ==
    [W EXCEPT !.symbolTable[Len(W.symbolTable)] = Bind(@, var, t)]

\* defInCurrentScope reads the top frame, a defaultdict: .W is the state the
\* read leaves, .value what it returns
defInCurrentScope(W, var) ==
    LET top == Len(W.symbolTable)
        frame == Touch(W.symbolTable[top], var)
    IN  [W |-> [W EXCEPT !.symbolTable[top] = frame], value |-> frame[var] # None]

\* the innermost of the frames lo..hi that has var as a key, 0 if none has
InnermostFrame(W, var, lo, hi) ==
    LET having == {k \in lo..hi : var \in DOMAIN W.symbolTable[k]}
    IN  IF having = {} THEN 0 ELSE CHOOSE k \in having : \A m \in having : m <= k

\* getType: the tables from the top one down, the first that has the key
getType(W, var) ==
    LET k == InnermostFrame(W, var, 1, Len(W.symbolTable))
    IN  IF k = 0 THEN None ELSE W.symbolTable[k][var]

\* getNonLocalType: the same over symbolTable[1:-1]
getNonLocalType(W, var) ==
    LET k == InnermostFrame(W, var, 2, Len(W.symbolTable) - 1)
    IN  IF k = 0 THEN None ELSE W.symbolTable[k][var]

\* getGlobal reads frame 0, a defaultdict: .W is the state the read leaves
getGlobal(W, var) ==
    LET frame == Touch(W.symbolTable[1], var)
    IN  [W |-> [W EXCEPT !.symbolTable[1] = frame], value |-> frame[var]]

----------------------------------------------------------------------------
(* CLASSES *)

classExists(W, className) == className \in DOMAIN W.classes

\* self.classes[className], a read of a defaultdict(lambda: {})
TouchClass(cls, className) ==
    IF className \in DOMAIN cls THEN cls ELSE cls @@ (className :> <<>>)

\* the walk of getMethod, getAttr and getAttrOrMethod up the superclass
\* chain: .classes is the registry the reads leave, .value the entry found
\* (None when the chain ends), .raised is set when the recursion comes back
\* to a class it has left (RecursionError)
RECURSIVE memberWalk(_, _, _, _)
memberWalk(cls, className, name, seen) ==
    LET cls1 == TouchClass(cls, className) IN
    IF name \notin DOMAIN cls1[className]
    THEN IF LookupClass(superclasses, className) = NoClass
         THEN [classes |-> cls1, value |-> None, raised |-> FALSE]
         ELSE IF className \in seen
         THEN [classes |-> cls1, value |-> None, raised |-> TRUE]
         ELSE memberWalk(cls1, LookupClass(superclasses, className), name,
                         seen \cup {className})
    ELSE [classes |-> cls1, value |-> cls1[className][name], raised |-> FALSE]

getMethod(cls, className, methodName) ==
    LET r == memberWalk(cls, className, methodName, {})
    IN  IF ~isFuncType(r.value) THEN [r EXCEPT !.value = None] ELSE r

getAttr(cls, className, attrName) ==
    LET r == memberWalk(cls, className, attrName, {})
    IN  IF ~isValueType(r.value) THEN [r EXCEPT !.value = None] ELSE r

getAttrOrMethod(cls, className, name) == memberWalk(cls, className, name, {})

----------------------------------------------------------------------------
(* ERROR HANDLING *)

Message(node, text) == [text |-> text, location |-> node]
CompilerError(location, message) == [location |-> location, message |-> message]

\* addError without the one-message-per-node gate
addErrorUngated(W, node, text) ==
    LET message == Message(node, text) IN
    [W EXCEPT !.errorMsg = Bind(@, node, message),
              !.progErrors = Append(@, CompilerError(node, message)),
              !.errors = Append(@, message)]

addError(W, node, text) ==
    IF node \in DOMAIN W.errorMsg THEN W
    ELSE LET message == Message(node, text) IN
         [W EXCEPT !.errorMsg = @ @@ (node :> message),
                   !.progErrors = Append(@, CompilerError(node, message)),
                   !.errors = Append(@, message)]

----------------------------------------------------------------------------
(* TYPES *)

\* a handler's outcome: .W the state it leaves, .type what it returns
Result(W, t) == [W |-> W, type |-> t]

ClassType(W, node, className) ==
    IF className \notin {"<None>", "<Empty>"} /\ ~classExists(W, className)
    THEN Result(addError(W, node, "Unknown class"), OBJECT_TYPE)
    ELSE Result(W, ClassValueType(className))

TypedVar(W, node, className) == ClassType(W, node, className)

----------------------------------------------------------------------------
(* DECLARATIONS *)

\* [self.visit(t) for t in node.params], from the k-th parameter on
RECURSIVE paramTypes(_, _, _, _)
paramTypes(W, p, params, k) ==
    IF k > Len(params) THEN Result(W, <<>>)
    ELSE LET r == TypedVar(W, ParamTypeOf(p, k), params[k].type)
             rest == paramTypes(r.W, p, params, k + 1)
         IN  Result(rest.W, <<r.type>> \o rest.type)

getSignature(W, i, d) ==
    LET r == ClassType(W, AnnotationOf(i), d.returnType)
        ps == paramTypes(r.W, i, d.params, 1)
    IN  Result(ps.W, FuncType(ps.type, r.type))

\* FuncType.methodEquals: equal but for the first parameter
methodEquals(t, funcType) ==
    /\ t.returnType = funcType.returnType
    /\ SubSeq(t.parameters, 2, Len(t.parameters))
           = SubSeq(funcType.parameters, 2, Len(funcType.parameters))

VarDefRule(W, i, d) ==
    LET r == TypedVar(W, AnnotationOf(i), d.type)
    IN  IF ~canAssign(d.value, r.type)
        THEN Result(addError(r.W, DeclOf(i), "Expected annotation type"), r.type)
        ELSE r

NonLocalDecl(W, i, d) ==
    IF W.expReturnType = None
    THEN Result(addError(W, DeclOf(i), "Nonlocal decl outside of function"), None)
    ELSE LET t == getNonLocalType(W, d.name)
         IN  IF t = None \/ ~isValueType(t)
             THEN Result(addError(W, IdentifierOf(i), "Unknown nonlocal variable"),
                         None)
             ELSE Result(W, t)

GlobalDecl(W, i, d) ==
    IF W.expReturnType = None
    THEN Result(addError(W, DeclOf(i), "Global decl outside of function"), None)
    ELSE LET g == getGlobal(W, d.name)
         IN  IF g.value = None \/ ~isValueType(g.value)
             THEN Result(addError(g.W, IdentifierOf(i), "Unknown global variable"),
                         None)
             ELSE Result(g.W, g.value)

\* Identifier: .type is the node's inferredType afterwards
Identifier(W, node, e) ==
    LET atFileScope == W.expReturnType = None /\ W.currentClass = NoClass
        g == getGlobal(W, e.name)
        W1 == IF atFileScope THEN g.W ELSE W
        varType == IF atFileScope THEN g.value ELSE getType(W, e.name)
    IN  IF varType # None /\ isValueType(varType)
        THEN Result(W1, varType)
        ELSE Result(addError(W1, node, "Unknown identifier"), OBJECT_TYPE)

\* AssignStmt with one target, the Identifier s.name
AssignStmt(W, p, k, s) ==
    LET inScope == defInCurrentScope(W, s.name)
    IN  IF ~inScope.value
        THEN addError(inScope.W, StmtPartOf(p, k, "target"),
                      "Identifier not defined in current scope")
        ELSE IF ~canAssign(s.value, s.type)
        THEN addError(inScope.W, StmtOf(p, k), "Expected target type")
        ELSE inScope.W

ReturnStmt(W, p, k, s) ==
    IF W.expReturnType = None
    THEN addError(W, StmtOf(p, k), "Return statement outside of function definition")
    ELSE IF s.value = None
    THEN IF ~canAssign(NONE_TYPE, W.expReturnType)
         THEN addError(W, StmtOf(p, k), "Expected return type")
         ELSE W
    ELSE IF ~canAssign(s.value, W.expReturnType)
    THEN addError(W, StmtOf(p, k), "Expected return type")
    ELSE W

\* IfStmt: .isReturn is the node's flag afterwards, FALSE when the rule
\* returns before it sets it
IfStmt(W, p, k, s) ==
    IF s.condition # BOOL_TYPE
    THEN [W |-> addError(W, StmtPartOf(p, k, "condition"), "Expected bool"),
          isReturn |-> FALSE]
    ELSE LET thenBody == \E n \in 1..Len(s.thenBody) : s.thenBody[n]
             elseBody == \E n \in 1..Len(s.elseBody) : s.elseBody[n]
         IN  [W |-> W, isReturn |-> thenBody /\ elseBody]

\* WhileStmt: isReturn is set only after the condition is accepted
WhileStmt(W, p, k, s) ==
    IF s.condition # BOOL_TYPE
    THEN [W |-> addError(W, StmtPartOf(p, k, "condition"), "Expected bool"),
          isReturn |-> FALSE]
    ELSE [W |-> W, isReturn |-> \E n \in 1..Len(s.body) : s.body[n]]

\* ForStmt: isReturn is set only after the iterable and the identifier are
\* accepted
ForStmt(W, p, k, s) ==
    IF isListValueType(s.iterable) /\ ~canAssign(s.iterable.elementType, s.identifier)
    THEN [W |-> addError(W, StmtPartOf(p, k, "identifier"), "Expected element type"),
          isReturn |-> FALSE]
    ELSE IF s.iterable = STR_TYPE /\ ~canAssign(STR_TYPE, s.identifier)
    THEN [W |-> addError(W, StmtPartOf(p, k, "identifier"), "Expected str"),
          isReturn |-> FALSE]
    ELSE IF ~isListValueType(s.iterable) /\ s.iterable # STR_TYPE
    THEN [W |-> addError(W, StmtPartOf(p, k, "iterable"), "Expected iterable"),
          isReturn |-> FALSE]
    ELSE [W |-> W, isReturn |-> \E n \in 1..Len(s.body) : s.body[n]]

\* self.visit(s) for a statement of a function body, and s.isReturn after it
visitStatement(W, p, k, s) ==
    CASE s.kind = "Identifier" ->
             [W |-> Identifier(W, StmtPartOf(p, k, "expr"), s).W, isReturn |-> FALSE]
      [] s.kind = "AssignStmt" -> [W |-> AssignStmt(W, p, k, s), isReturn |-> FALSE]
      [] s.kind = "ReturnStmt" -> [W |-> ReturnStmt(W, p, k, s), isReturn |-> TRUE]
      [] s.kind = "IfStmt" -> IfStmt(W, p, k, s)
      [] s.kind = "WhileStmt" -> WhileStmt(W, p, k, s)
      [] s.kind = "ForStmt" -> ForStmt(W, p, k, s)

\* FuncDef, the loop over node.statements from the k-th on
RECURSIVE visitStatements(_, _, _, _, _)
visitStatements(W, p, stmts, k, hasReturn) ==
    IF k > Len(stmts) THEN [W |-> W, hasReturn |-> hasReturn]
    ELSE LET r == visitStatement(W, p, k, stmts[k])
         IN  visitStatements(r.W, p, stmts, k + 1, hasReturn \/ r.isReturn)

\* FuncDef, the loop over node.params from the k-th on
RECURSIVE paramsLoop(_, _, _, _)
paramsLoop(W, p, params, k) ==
    IF k > Len(params) THEN W
    ELSE LET t == TypedVar(W, ParamTypeOf(p, k), params[k].type)
             pName == params[k].name
             inScope == defInCurrentScope(t.W, pName)
             W1 == IF inScope.value \/ classExists(inScope.W, pName)
                   THEN addError(inScope.W, ParamOf(p, k), "Duplicate parameter name")
                   ELSE addType(inScope.W, pName, t.type)
         IN  paramsLoop(W1, p, params, k + 1)

RECURSIVE visitDeclaration(_, _, _)

\* FuncDef, the first loop over node.declarations, from the k-th on
RECURSIVE declareLocals(_, _, _, _)
declareLocals(W, p, decls, k) ==
    IF k > Len(decls) THEN W
    ELSE LET d == decls[k]
             i == Child(p, k)
             inScope == defInCurrentScope(W, d.name)
             bound == CASE d.kind = "FuncDef" -> getSignature(inScope.W, i, d)
                        [] d.kind = "VarDef" ->
                               TypedVar(inScope.W, AnnotationOf(i), d.type)
                        [] d.kind = "NonLocalDecl" -> NonLocalDecl(inScope.W, i, d)
                        [] d.kind = "GlobalDecl" -> GlobalDecl(inScope.W, i, d)
             W1 == IF inScope.value \/ classExists(inScope.W, d.name)
                   THEN addError(inScope.W, IdentifierOf(i),
                                 "Duplicate declaration of identifier")
                   ELSE addType(bound.W, d.name, bound.type)
         IN  declareLocals(W1, p, decls, k + 1)

\* FuncDef, the second loop over node.declarations, from the k-th on
RECURSIVE visitLocals(_, _, _, _, _)
visitLocals(W, p, decls, k, rType) ==
    IF k > Len(decls) \/ W.raised THEN W
    ELSE LET r == visitDeclaration(W, Child(p, k), decls[k])
         IN  visitLocals([r.W EXCEPT !.expReturnType = rType], p, decls, k + 1, rType)

\* FuncDef after the loop over node.statements: the missing return, the
\* reset of expReturnType and exitScope
FuncDefExit(body, i, funcType) ==
    LET W7 == IF ~body.hasReturn /\ ~canAssign(NONE_TYPE, body.W.expReturnType)
              THEN addError(body.W, IdentifierOf(i), "Expected return statement")
              ELSE body.W
    IN  Result(exitScope([W7 EXCEPT !.expReturnType = None]), funcType)

\* FuncDef after the second loop over node.declarations
FuncDefStatements(W6, i, d, funcType) ==
    IF W6.raised THEN Result(W6, None)
    ELSE FuncDefExit(visitStatements(W6, i, d.statements, 1, FALSE), i, funcType)

\* FuncDef from the loop over node.params on
FuncDefBody(W3, i, d, funcType) ==
    FuncDefStatements(
        visitLocals(declareLocals(paramsLoop(W3, i, d.params, 1),
                                  i, d.declarations, 1),
                    i, d.declarations, 1, funcType.returnType),
        i, d, funcType)

\* FuncDef after expReturnType is set: the checks of the function's name
\* and of the self parameter, which return without exitScope
FuncDefChecks(W2, i, d, funcType) ==
    LET inScope == defInCurrentScope(W2, d.name)
        missingSelf == \/ Len(d.params) = 0
                       \/ d.params[1].name # "self"
                       \/ ~isClassValueType(funcType.parameters[1])
                       \/ funcType.parameters[1].className # W2.currentClass
    IN  IF ~d.isMethod /\ classExists(W2, d.name)
        THEN Result(addError(W2, IdentifierOf(i), "Functions cannot shadow classes"),
                    None)
        ELSE IF ~d.isMethod /\ inScope.value
        THEN Result(addError(inScope.W, IdentifierOf(i),
                             "Duplicate declaration of identifier"), None)
        ELSE IF d.isMethod /\ missingSelf
        THEN Result(addError(W2, IdentifierOf(i), "Missing self param in method"),
                    None)
        ELSE FuncDefBody(IF d.isMethod THEN W2
                         ELSE addType(inScope.W, d.name, funcType), i, d, funcType)

\* FuncDef after the signature is computed
FuncDefSigned(sig, i, d) ==
    FuncDefChecks([sig.W EXCEPT !.expReturnType = sig.type.returnType], i, d, sig.type)

\* FuncDef; .type is None on the paths that return without a value
FuncDefRule(W, i, d) == FuncDefSigned(getSignature(enterScope(W), i, d), i, d)

\* ClassDef, the first loop's body for a method: sig is its signature, own
\* the registry after the read of self.classes[className], t the result of
\* getAttrOrMethod
registerMethod(W, sig, own, t, i, d) ==
    IF d.name \in DOMAIN own[W.currentClass]
    THEN addError([W EXCEPT !.classes = own], IdentifierOf(i),
                  "Duplicate declaration of identifier")
    ELSE IF t.raised THEN [W EXCEPT !.classes = t.classes, !.raised = TRUE]
    ELSE IF t.value # None /\ ~isFuncType(t.value)
    THEN addError([W EXCEPT !.classes = t.classes], IdentifierOf(i),
                  "Method name shadows attribute")
    ELSE IF t.value # None /\ ~methodEquals(t.value, sig)
    THEN addError([W EXCEPT !.classes = t.classes], IdentifierOf(i),
                  "Redefined method doesn't match superclass signature")
    ELSE [W EXCEPT !.classes = [t.classes EXCEPT
                                    ![W.currentClass] = Bind(@, d.name, sig)]]

\* self.classes[className][attrName] = self.visit(d.var), annotation being
\* the result of the visit
bindAttr(annotation, attrName) ==
    [annotation.W EXCEPT
        !.classes[annotation.W.currentClass] = Bind(@, attrName, annotation.type)]

\* ClassDef, the first loop's body for an attribute: t is the result of
\* getAttrOrMethod
registerAttr(W, t, i, d) ==
    IF t.raised THEN [W EXCEPT !.classes = t.classes, !.raised = TRUE]
    ELSE IF t.value # None
    THEN addError([W EXCEPT !.classes = t.classes], IdentifierOf(i),
                  "Cannot redefine attribute")
    ELSE bindAttr(TypedVar([W EXCEPT !.classes = t.classes], AnnotationOf(i), d.type),
                  d.name)

\* ClassDef, the first loop's body for a method whose signature is sig
registerSigned(sig, i, d) ==
    registerMethod(sig.W, sig.type, TouchClass(sig.W.classes, sig.W.currentClass),
                   getAttrOrMethod(TouchClass(sig.W.classes, sig.W.currentClass),
                                   sig.W.currentClass, d.name),
                   i, d)

\* ClassDef, the first loop over node.declarations, from the k-th on
RECURSIVE registerMembers(_, _, _, _)
registerMembers(W, p, decls, k) ==
    IF k > Len(decls) \/ W.raised THEN W
    ELSE registerMembers(
             CASE decls[k].kind = "FuncDef" ->
                      registerSigned(getSignature(W, Child(p, k), decls[k]),
                                     Child(p, k), decls[k])
               [] decls[k].kind = "VarDef" ->
                      registerAttr(W, getAttrOrMethod(W.classes, W.currentClass,
                                                      decls[k].name),
                                   Child(p, k), decls[k]),
             p, decls, k + 1)

\* ClassDef, the second loop over node.declarations, from the k-th on
RECURSIVE visitMembers(_, _, _, _)
visitMembers(W, p, decls, k) ==
    IF k > Len(decls) \/ W.raised THEN W
    ELSE visitMembers(visitDeclaration(W, Child(p, k), decls[k]).W, p, decls, k + 1)

\* ClassDef after the second loop over node.declarations
ClassDefExit(W3) ==
    IF W3.raised THEN Result(W3, None)
    ELSE Result([W3 EXCEPT !.currentClass = NoClass], None)

ClassDefRule(W, i, d) ==
    ClassDefExit(visitMembers(registerMembers([W EXCEPT !.currentClass = d.name],
                                              i, d.declarations, 1),
                              i, d.declarations, 1))

visitDeclaration(W, i, d) ==
    CASE d.kind = "ClassDef" -> ClassDefRule(W, i, d)
      [] d.kind = "FuncDef" -> FuncDefRule(W, i, d)
      [] d.kind = "VarDef" -> VarDefRule(W, i, d)
      [] d.kind = "NonLocalDecl" -> NonLocalDecl(W, i, d)
      [] d.kind = "GlobalDecl" -> GlobalDecl(W, i, d)

\* the fields a new TypeChecker starts with
StandardLibrary ==
    [n \in {"print", "input", "len"} |->
        CASE n = "print" -> FuncType(<<ObjectType>>, NoneType)
          [] n = "input" -> FuncType(<<>>, StrType)
          [] n = "len" -> FuncType(<<ObjectType>>, IntType)]
DefaultHierarchy ==
    [c \in {"object", "int", "bool", "str", "<None>", "<Empty>"} |->
        IF c = "object" THEN NoClass ELSE "object"]
DefaultClasses ==
    [c \in {"object", "int", "bool", "str"} |->
        [m \in {"__init__"} |-> FuncType(<<ObjectType>>, NoneType)]]

Init ==
    /\ superclasses = DefaultHierarchy
    /\ classes = DefaultClasses
    /\ symbolTable = <<StandardLibrary>>
    /\ errors = <<>>
    /\ progErrors = <<>>
    /\ errorMsg = <<>>
    /\ currentClass = NoClass
    /\ expReturnType = None
    /\ declarations = <<>>
    /\ nStatements = 0
    /\ statements = <<>>
    /\ pc = "declare"
    /\ next = 1
    /\ last = None
    /\ annotated = None

\* Program, first loop: one iteration, on the declaration d
ProgramDeclare(d) ==
    /\ pc = "declare"
    /\ annotated # None =>
           /\ Len(declarations) < Len(annotated.declarations)
           /\ d = annotated.declarations[Len(declarations) + 1]
    /\ LET i == Len(declarations) + 1
           inScope == defInCurrentScope(Self, d.name)
           W1 == IF inScope.value \/ classExists(Self, d.name)
                 THEN addError(inScope.W, IdentifierOf(i),
                               "Duplicate declaration of identifier")
                 ELSE inScope.W
           unknown == d.kind = "ClassDef" /\ ~classExists(W1, d.superclass)
           illegal == d.kind = "ClassDef" /\ ~unknown
                      /\ d.superclass \in {"int", "bool", "str", d.name}
           registered == d.kind = "ClassDef" /\ ~unknown /\ ~illegal
           W2 == IF unknown THEN addError(W1, SuperclassOf(i), "Unknown superclass")
                 ELSE IF illegal THEN addError(W1, SuperclassOf(i), "Illegal superclass")
                 ELSE IF registered
                 THEN [W1 EXCEPT !.classes = Bind(@, d.name, <<>>)]
                 ELSE IF d.kind = "FuncDef"
                 THEN LET r == getSignature(W1, i, d) IN addType(r.W, d.name, r.type)
                 ELSE LET r == TypedVar(W1, AnnotationOf(i), d.type)
                      IN  addType(r.W, d.name, r.type)
       IN  /\ declarations' = Append(declarations, d)
           /\ Store(W2)
           /\ superclasses' = IF registered
                              THEN Bind(superclasses, d.name, d.superclass)
                              ELSE superclasses
    /\ UNCHANGED <<nStatements, statements, pc, next, last, annotated>>

\* Program, the first loop is over
ProgramDeclared ==
    /\ pc = "declare"
    /\ annotated # None => Len(declarations) = Len(annotated.declarations)
    /\ pc' = "visit"
    /\ UNCHANGED <<superclasses, classes, symbolTable, errors, progErrors, errorMsg,
                   currentClass, expReturnType, declarations, nStatements,
                   statements, next, last, annotated>>

\* Program, second loop: one iteration, on declarations[next]
ProgramVisit ==
    /\ pc = "visit"
    /\ next <= Len(declarations)
    /\ LET d == declarations[next]
           W1 == IF IdentifierOf(next) \in DOMAIN errorMsg THEN Self
                 ELSE visitDeclaration(Self, next, d).W
       IN  /\ Store(W1)
           /\ pc' = IF W1.raised THEN "raised" ELSE pc
    /\ next' = next + 1
    /\ UNCHANGED <<superclasses, declarations, nStatements, statements, last,
                   annotated>>

\* Program without the return on recorded errors
ProgramErrorsIgnored(n) ==
    /\ pc = "visit"
    /\ next > Len(declarations)
    /\ annotated # None => n = annotated.nStatements
    /\ nStatements' = n
    /\ pc' = IF n = 0 THEN "done" ELSE "statements"
    /\ UNCHANGED <<superclasses, classes, symbolTable, errors, progErrors, errorMsg,
                   currentClass, expReturnType, declarations, statements, next, last,
                   annotated>>

\* Program, after the second loop: return when an error was recorded,
\* otherwise go on to node.statements, n of them
ProgramErrors(n) ==
    /\ pc = "visit"
    /\ next > Len(declarations)
    /\ annotated # None => n = annotated.nStatements
    /\ nStatements' = n
    /\ pc' = IF Len(errors) > 0 \/ n = 0 THEN "done" ELSE "statements"
    /\ UNCHANGED <<superclasses, classes, symbolTable, errors, progErrors, errorMsg,
                   currentClass, expReturnType, declarations, statements, next, last,
                   annotated>>

----------------------------------------------------------------------------
(* STATEMENTS AND EXPRESSIONS *)

\* An expression node is given by its kind, its own fields and the
\* inferredType of each child, which the rule reads.  Before its rule is
\* applied a node's inferredType is None.

\* a rule's outcome: .W the state it leaves, .type the node's inferredType
\* afterwards, .ends "returns", "raises" (an exception leaves the pass) or
\* "diverges"
Outcome(W, t, ends) == [W |-> W, type |-> t, ends |-> ends]

static_types == {INT_TYPE, BOOL_TYPE, STR_TYPE}

binopError(W, node) == addError(W, node, "Cannot use operator")

BinaryExpr(W, node, e) ==
    LET operator == e.operator
        leftType == e.left
        rightType == e.right
        fails == Outcome(binopError(W, node), None, "returns")
    IN  IF operator = "+"
        THEN IF isListValueType(leftType) /\ isListValueType(rightType)
             THEN LET j == join(leftType.elementType, rightType.elementType)
                  IN  IF j = Diverges THEN Outcome(W, None, "diverges")
                      ELSE Outcome(W, ListValueType(j), "returns")
             ELSE IF leftType = rightType /\ leftType \in {STR_TYPE, INT_TYPE}
             THEN Outcome(W, leftType, "returns")
             ELSE fails
        ELSE IF operator \in {"-", "*", "//", "%"}
        THEN IF leftType = INT_TYPE /\ rightType = INT_TYPE
             THEN Outcome(W, INT_TYPE, "returns") ELSE fails
        ELSE IF operator \in {"<", "<=", ">", ">="}
        THEN IF leftType = INT_TYPE /\ rightType = INT_TYPE
             THEN Outcome(W, BOOL_TYPE, "returns") ELSE fails
        ELSE IF operator \in {"==", "!="}
        THEN IF leftType = rightType /\ leftType \in static_types
             THEN Outcome(W, BOOL_TYPE, "returns") ELSE fails
        ELSE IF operator = "is"
        THEN IF leftType \notin static_types /\ rightType \notin static_types
             THEN Outcome(W, BOOL_TYPE, "returns") ELSE fails
        ELSE IF operator \in {"and", "or"}
        THEN IF leftType = BOOL_TYPE /\ rightType = BOOL_TYPE
             THEN Outcome(W, BOOL_TYPE, "returns") ELSE fails
        ELSE Outcome(W, OBJECT_TYPE, "returns")

IndexExpr(W, node, e) ==
    LET W1 == IF e.index # INT_TYPE THEN addError(W, node, "Expected int index")
              ELSE W
    IN  IF e.list = STR_TYPE THEN Outcome(W1, STR_TYPE, "returns")
        ELSE IF isListValueType(e.list)
        THEN Outcome(W1, e.list.elementType, "returns")
        ELSE Outcome(addError(W1, node, "Cannot index into"), OBJECT_TYPE, "returns")

UnaryExpr(W, node, e) ==
    LET operandType == e.operand IN
    IF e.operator = "-"
    THEN IF operandType = INT_TYPE THEN Outcome(W, INT_TYPE, "returns")
         ELSE Outcome(addError(W, node, "Expected int"), None, "returns")
    ELSE IF e.operator = "not"
    THEN IF operandType = BOOL_TYPE THEN Outcome(W, BOOL_TYPE, "returns")
         ELSE Outcome(addError(W, node, "Expected bool"), None, "returns")
    ELSE Outcome(W, OBJECT_TYPE, "returns")

RECURSIVE ListExprLoop(_, _, _)
ListExprLoop(e_type, elements, k) ==
    IF k > Len(elements) \/ e_type = Diverges THEN e_type
    ELSE ListExprLoop(join(e_type, elements[k]), elements, k + 1)

ListExpr(W, node, e) ==
    IF Len(e.elements) = 0 THEN Outcome(W, EMPTY_TYPE, "returns")
    ELSE LET e_type == ListExprLoop(e.elements[1], e.elements, 1)
         IN  IF e_type = Diverges THEN Outcome(W, None, "diverges")
             ELSE Outcome(W, ListValueType(e_type), "returns")

MemberExpr(W, node, e) ==
    IF e.object \in static_types \/ ~isClassValueType(e.object)
    THEN Outcome(addError(W, node, "Expected object"), None, "returns")
    ELSE LET class_name == e.object.className
             member_name == e.member
             g1 == getAttr(W.classes, class_name, member_name)
             W1 == [W EXCEPT !.classes = g1.classes]
         IN  IF g1.raised THEN Outcome(W1, None, "raises")
             ELSE IF g1.value = None
             THEN Outcome(addError(W1, node, "Attribute doesn't exist for class"),
                          OBJECT_TYPE, "returns")
             ELSE Outcome(W1, getAttr(W1.classes, class_name, member_name).value,
                          "returns")

\* addError is called with one argument when the condition is not bool: the
\* call raises TypeError before it changes anything
IfExpr(W, node, e) ==
    IF e.condition # BOOL_TYPE THEN Outcome(W, None, "raises")
    ELSE LET j == join(e.thenExpr, e.elseExpr)
         IN  IF j = Diverges THEN Outcome(W, None, "diverges")
             ELSE Outcome(W, j, "returns")

\* CallExpr, the loop over the parameters from the i-th argument on; offset
\* is 1 for a constructor, whose first parameter is self
RECURSIVE argsLoop(_, _, _, _, _, _)
argsLoop(W, node, args, parameters, offset, i) ==
    IF i + offset > Len(parameters) THEN W
    ELSE argsLoop(IF ~canAssign(args[i], parameters[i + offset])
                  THEN addError(W, node, "Expected parameter type")
                  ELSE W,
                  node, args, parameters, offset, i + 1)

\* CallExpr, the checks of the arguments against the function type t; type
\* is the inferredType the call gets whatever the checks report
callChecked(W, node, e, t, offset, type) ==
    Outcome(IF Len(t.parameters) # Len(e.args) + offset
            THEN addError(W, node, "Expected number of args")
            ELSE argsLoop(W, node, e.args, t.parameters, offset, 1),
            type, "returns")

\* CallExpr on the name of a class: t is the result of getMethod; t.parameters
\* raises AttributeError when no __init__ is found
constructorCall(W, node, e, t) ==
    IF t.raised \/ t.value = None
    THEN Outcome([W EXCEPT !.classes = t.classes], None, "raises")
    ELSE callChecked([W EXCEPT !.classes = t.classes], node, e, t.value, 1,
                     ClassValueType(e.function))

\* CallExpr on another name: t is the result of getType
functionCall(W, node, e, t) ==
    IF ~isFuncType(t)
    THEN Outcome(addError(W, node, "Not a function"), OBJECT_TYPE, "returns")
    ELSE callChecked(W, node, e, t, 0, t.returnType)

CallExpr(W, node, e) ==
    IF classExists(W, e.function)
    THEN constructorCall(W, node, e, getMethod(W.classes, e.function, "__init__"))
    ELSE functionCall(W, node, e, getType(W, e.function))

(* LITERALS *)

BooleanLiteral(W, node, e) == Outcome(W, BoolType, "returns")
IntegerLiteral(W, node, e) == Outcome(W, IntType, "returns")
NoneLiteral(W, node, e) == Outcome(W, NoneType, "returns")
StringLiteral(W, node, e) == Outcome(W, StrType, "returns")

visitExpr(W, node, e) ==
    CASE e.kind = "BinaryExpr" -> BinaryExpr(W, node, e)
      [] e.kind = "IndexExpr" -> IndexExpr(W, node, e)
      [] e.kind = "UnaryExpr" -> UnaryExpr(W, node, e)
      [] e.kind = "ListExpr" -> ListExpr(W, node, e)
      [] e.kind = "MemberExpr" -> MemberExpr(W, node, e)
      [] e.kind = "IfExpr" -> IfExpr(W, node, e)
      [] e.kind = "CallExpr" -> CallExpr(W, node, e)
      [] e.kind = "BooleanLiteral" -> BooleanLiteral(W, node, e)
      [] e.kind = "IntegerLiteral" -> IntegerLiteral(W, node, e)
      [] e.kind = "NoneLiteral" -> NoneLiteral(W, node, e)
      [] e.kind = "StringLiteral" -> StringLiteral(W, node, e)

\* Program, third loop: one iteration, on an ExprStmt whose expression is e
ProgramStatement(e) ==
    /\ pc = "statements"
    /\ Len(statements) < nStatements
    /\ (annotated # None /\ Len(statements) < Len(annotated.statements)) =>
           e = annotated.statements[Len(statements) + 1]
    /\ LET j == Len(statements) + 1
           out == visitExpr(Self, ExprOf(j), e)
       IN  /\ Store(out.W)
           /\ last' = [node |-> ExprOf(j), kind |-> e.kind, ends |-> out.ends,
                       inferredType |-> out.type]
           /\ pc' = IF out.ends = "raises" THEN "raised"
                    ELSE IF out.ends = "diverges" THEN "diverged"
                    ELSE IF j = nStatements THEN "done" ELSE "statements"
    /\ statements' = Append(statements, e)
    /\ UNCHANGED <<superclasses, declarations, nStatements, next, annotated>>

\* run_closure_test: a new TypeChecker visits the AST that a first pass has
\* annotated; the nodes keep their errorMsg and the Program its collector
Rerun ==
    /\ pc = "done"
    /\ annotated = None
    /\ annotated' = [declarations |-> declarations, statements |-> statements,
                     nStatements |-> nStatements, errors |-> Len(progErrors)]
    /\ superclasses' = DefaultHierarchy
    /\ classes' = DefaultClasses
    /\ symbolTable' = <<StandardLibrary>>
    /\ errors' = <<>>
    /\ currentClass' = NoClass
    /\ expReturnType' = None
    /\ declarations' = <<>>
    /\ statements' = <<>>
    /\ pc' = "declare"
    /\ next' = 1
    /\ last' = None
    /\ UNCHANGED <<progErrors, errorMsg, nStatements>>

----------------------------------------------------------------------------
(* Programs *)

BinaryExprNode(operator, left, right) ==
    [kind |-> "BinaryExpr", operator |-> operator, left |-> left, right |-> right]
IndexExprNode(list, index) == [kind |-> "IndexExpr", list |-> list, index |-> index]
UnaryExprNode(operator, operand) ==
    [kind |-> "UnaryExpr", operator |-> operator, operand |-> operand]
ListExprNode(elements) == [kind |-> "ListExpr", elements |-> elements]
MemberExprNode(object, member) ==
    [kind |-> "MemberExpr", object |-> object, member |-> member]
IfExprNode(condition, thenExpr, elseExpr) ==
    [kind |-> "IfExpr", condition |-> condition, thenExpr |-> thenExpr,
     elseExpr |-> elseExpr]
LiteralNode(kind) == [kind |-> kind]
\* function is the name of the callee, args the inferredType of each argument
CallExprNode(function, args) ==
    [kind |-> "CallExpr", function |-> function, args |-> args]

\* class definitions over the user classes
ClassDefs ==
    {ClassDef(c, s, <<>>) : c \in UserClasses, s \in UserClasses \cup {"object"}}

\* top-level declarations of every kind
TopDecls ==
    {ClassDef(c, s, <<>>) : c \in {"A", "B"}, s \in {"object", "A", "B", "int"}}
    \cup {FuncDef(f, r, FALSE, <<>>, <<>>, <<>>) : f \in {"f", "A"},
                                                  r \in {"int", "object"}}
    \cup {VarDef("x", t, v) : t \in {"int", "Z"}, v \in {IntType, NoneType}}
    \cup {FuncDef("print", "object", FALSE, <<>>, <<>>, <<>>),
          VarDef("print", "int", IntType),
          FuncDef("h", "int", FALSE, <<Param("a", "int")>>, <<>>,
                  <<ReturnStmtNode(IntType)>>)}

\* expressions of top-level expression statements
Exprs ==
    {LiteralNode(k) : k \in {"BooleanLiteral", "IntegerLiteral", "NoneLiteral",
                             "StringLiteral"}}
    \cup {BinaryExprNode("+", l, r) : l \in {IntType, BoolType}, r \in {IntType, BoolType}}
    \cup {IndexExprNode(l, i) : l \in {IntType, ListValueType(IntType)},
                                i \in {IntType, BoolType}}
    \cup {UnaryExprNode("-", t) : t \in {IntType, BoolType}}
    \cup {ListExprNode(<<>>), ListExprNode(<<IntType, BoolType>>)}
    \cup {MemberExprNode(o, "x") : o \in {IntType, ObjectType}}
    \cup {IfExprNode(c, IntType, BoolType) : c \in {BoolType, IntType}}
    \cup {CallExprNode(f, as) : f \in {"h", "x", "A"},
                                as \in {<<>>, <<IntType>>, <<BoolType>>}}

\* a function nested in another, without parameters
Inner(name, returnType, decls, stmts) ==
    FuncDef(name, returnType, FALSE, <<>>, decls, stmts)

\* node.declarations of a top-level function: a local x, a global or
\* nonlocal declaration of x, and functions nested one and two levels deep
\* that declare x global or nonlocal, or bear the name of a class or of x
LocalDecls ==
    {<<>>,
     <<VarDef("x", "int", IntType)>>,
     <<GlobalDeclNode("x")>>,
     <<NonLocalDeclNode("x")>>,
     <<VarDef("x", "int", IntType),
       Inner("g", "object", <<NonLocalDeclNode("x")>>, <<IdentifierNode("x")>>)>>,
     <<VarDef("x", "int", IntType),
       Inner("g", "object", <<GlobalDeclNode("x")>>, <<IdentifierNode("x")>>)>>,
     <<VarDef("x", "int", IntType), Inner("int", "object", <<>>, <<>>)>>,
     <<VarDef("x", "int", IntType), Inner("x", "int", <<>>, <<>>)>>,
     <<VarDef("x", "int", IntType),
       Inner("g", "object",
             <<GlobalDeclNode("x"),
               Inner("h", "object", <<NonLocalDeclNode("x")>>, <<>>)>>,
             <<>>)>>}

\* node.statements of a function: a read of x, an assignment to x
ScopeStmts ==
    {<<IdentifierNode("x")>>, <<AssignStmtNode("x", IntType, IntType)>>,
     <<AssignStmtNode("x", IntType, IntType), IdentifierNode("x")>>}

\* node.statements of a function: none, a return, an if with a return in
\* one branch, in both, and in both under a condition that is not bool, and
\* loops whose body returns or not, under a condition or an iterable that
\* is accepted or not
ReturnStmts ==
    {<<>>,
     <<ReturnStmtNode(IntType)>>,
     <<IfStmtNode(BoolType, <<TRUE>>, <<>>)>>,
     <<IfStmtNode(BoolType, <<TRUE>>, <<TRUE>>)>>,
     <<IfStmtNode(IntType, <<TRUE>>, <<TRUE>>)>>,
     <<WhileStmtNode(BoolType, <<FALSE>>)>>,
     <<WhileStmtNode(BoolType, <<TRUE>>)>>,
     <<WhileStmtNode(IntType, <<TRUE>>)>>,
     <<ForStmtNode(IntType, ListValueType(IntType), <<TRUE>>)>>,
     <<ForStmtNode(IntType, StrType, <<TRUE>>)>>,
     <<ForStmtNode(StrType, StrType, <<FALSE, TRUE>>)>>,
     <<ForStmtNode(IntType, IntType, <<TRUE>>)>>}

\* top-level declarations of a program made of functions and a variable x
FuncDecls ==
    {VarDef("x", "int", IntType)}
    \cup {FuncDef("f", "object", FALSE, <<>>, ds, ss) :
              ds \in LocalDecls, ss \in ScopeStmts}
    \cup {FuncDef("f", r, FALSE, <<>>, <<>>, ss) :
              r \in {"int", "object"}, ss \in ReturnStmts}
    \cup {FuncDef("f", "object", FALSE, <<Param("x", "int")>>, <<>>, ss) :
              ss \in ScopeStmts}
    \cup {FuncDef("g", "object", FALSE, <<>>, <<NonLocalDeclNode("x")>>, ss) :
              ss \in ScopeStmts}

\* the bodies of a class c: empty, an attribute x, a method x returning
\* object, a method x returning int, a constructor, and a method without a
\* self parameter
ClassBodies(c) ==
    {<<>>,
     <<VarDef("x", "int", IntType)>>,
     <<FuncDef("x", "object", TRUE, <<Param("self", c)>>, <<>>, <<>>)>>,
     <<FuncDef("x", "int", TRUE, <<Param("self", c)>>, <<>>, <<>>)>>,
     <<FuncDef("__init__", "<None>", TRUE, <<Param("self", c)>>, <<>>, <<>>)>>,
     <<FuncDef("m", "object", TRUE, <<>>, <<>>, <<>>)>>}

\* top-level declarations of a program made of classes with members: A
\* below object, below the illegal int and below the unknown Z; B below
\* object and below A
MemberDecls ==
    {ClassDef("A", sup, body) : sup \in {"object", "int", "Z"},
                                body \in ClassBodies("A")}
    \cup {ClassDef("B", sup, body) : sup \in {"object", "A"},
                                     body \in ClassBodies("B")}

----------------------------------------------------------------------------
(* The pass over a program with declarations of every kind *)

Next ==
    \/ \E d \in TopDecls : Len(declarations) < MaxDecls /\ ProgramDeclare(d)
    \/ ProgramDeclared
    \/ ProgramVisit
    \/ \E n \in 0..MaxStmts : ProgramErrors(n)
    \/ \E e \in Exprs : ProgramStatement(e)

Spec == Init /\ [][Next]_vars

(* A pass over a program, and a second pass over the AST it leaves *)

NextTwice ==
    \/ Next
    \/ Rerun

SpecTwice == Init /\ [][NextTwice]_vars

(* The pass over a program made of functions, without statements *)

NextFunctions ==
    \/ \E d \in FuncDecls : Len(declarations) < MaxFuncDecls /\ ProgramDeclare(d)
    \/ ProgramDeclared
    \/ ProgramVisit
    \/ ProgramErrors(0)

SpecFunctions == Init /\ [][NextFunctions]_vars

(* The pass over a program made of classes with members, without          *)
(* statements                                                              *)

NextMembers ==
    \/ \E d \in MemberDecls : Len(declarations) < MaxMemberDecls /\ ProgramDeclare(d)
    \/ ProgramDeclared
    \/ ProgramVisit
    \/ ProgramErrors(0)

SpecMembers == Init /\ [][NextMembers]_vars

(* The first loop of Program over a program made of class definitions *)

NextLattice ==
    \E d \in ClassDefs : Len(declarations) < MaxClassDecls /\ ProgramDeclare(d)

SpecLattice == Init /\ [][NextLattice]_vars

----------------------------------------------------------------------------
(* The superclass relation, stated on the map itself *)

Parents(S) == {LookupClass(superclasses, x) : x \in S} \ {NoClass}

RECURSIVE Reach(_)
Reach(S) == IF Parents(S) \subseteq S THEN S ELSE Reach(S \cup Parents(S))

\* the classes c is a subclass of, c included
UpSet(c) == Reach({c})
\* the classes c is a proper subclass of
ProperAncestors(c) == IF Parents({c}) = {} THEN {} ELSE Reach(Parents({c}))

RegisteredTypes == {t \in Types : isClassValueType(t) /\ t.className \in DOMAIN classes}
ElementTypes == {t \in Types : ListValueType(t) \in Types}
Primitive == {IntType, BoolType, StrType}

----------------------------------------------------------------------------
(* C1 -- join of two unrelated registered classes is their lowest common   *)
(* ancestor: a common ancestor-or-self that every common ancestor-or-self  *)
(* is an ancestor-or-self of.                                              *)

IsLowestCommonAncestor(j, a, b) ==
    /\ isClassValueType(j)
    /\ j.className \in UpSet(a.className) \cap UpSet(b.className)
    /\ UpSet(a.className) \cap UpSet(b.className) \subseteq UpSet(j.className)

C1_JoinIsLowestCommonAncestor ==
    \A a \in RegisteredTypes : \A b \in RegisteredTypes :
        (/\ canAssignRun(a, b) = "False"
         /\ canAssignRun(b, a) = "False"
         /\ join(a, b) # Diverges)
        => IsLowestCommonAncestor(join(a, b), a, b)

(* C2 -- join is an upper bound for assignability: both arguments can be   *)
(* assigned to join(a, b).                                                 *)
C2_JoinUpperBound ==
    \A a \in Types : \A b \in Types :
        canAssign(a, join(a, b)) /\ canAssign(b, join(a, b))

(* C3 -- join is commutative: join(a, b) and join(b, a) are the same type. *)
C3_JoinCommutative ==
    \A a \in Types : \A b \in Types : join(a, b) = join(b, a)

(* C4 -- canAssign(a, b) is true exactly when one of the four rules holds, *)
(* and so list types with different element types are assignable only from *)
(* [<None>] to a list of a nullable element type.                          *)
Rule1(a, b) ==
    \/ b = ObjectType
    \/ isClassValueType(a) /\ isClassValueType(b) /\ b.className \in UpSet(a.className)
    \/ ~(isClassValueType(a) /\ isClassValueType(b)) /\ a = b
Rule2(a, b) == a = NoneType /\ b \notin Primitive
Rule3(a, b) == a = EmptyType /\ isListValueType(b)
Rule4(a, b) ==
    /\ a = ListValueType(NoneType)
    /\ isListValueType(b)
    /\ canAssign(NoneType, b.elementType)

C4_CanAssignRules ==
    /\ \A a \in Types : \A b \in Types :
           canAssign(a, b) <=> (Rule1(a, b) \/ Rule2(a, b) \/ Rule3(a, b) \/ Rule4(a, b))
    /\ \A A \in ElementTypes : \A B \in ElementTypes :
           (A # B /\ canAssign(ListValueType(A), ListValueType(B)))
           => (A = NoneType /\ B \notin Primitive)

\* a class B registered below a class A, whose list is not assignable to [A]
C4_Witness ==
    \E A \in RegisteredTypes : \E B \in RegisteredTypes :
        /\ A # B /\ A # ObjectType
        /\ isSubClass(B.className, A.className)
        /\ ~canAssign(ListValueType(B), ListValueType(A))
        /\ canAssign(ListValueType(NoneType), ListValueType(A))
        /\ ~canAssign(ListValueType(NoneType), ListValueType(IntType))

C6_Acyclic ==
    \A c \in DOMAIN classes :
        c \notin ProperAncestors(c) /\ "object" \in UpSet(c)

(* C7 -- isSubClass, getMethod, getAttr and getAttrOrMethod halt for every *)
(* class name on the superclass map the declaration pass has produced.     *)
C7_WalksHalt ==
    \A a \in ClassNames :
        /\ \A b \in ClassNames : isSubClassRun(a, b) # "diverges"
        /\ \A m \in {"__init__", "x"} :
               /\ ~getMethod(classes, a, m).raised
               /\ ~getAttr(classes, a, m).raised
               /\ ~getAttrOrMethod(classes, a, m).raised

DeclarationErrors ==
    {k \in 1..Len(errors) : errors[k].location.root = "declarations"}

C9_InferredTypeSet ==
    (last # None /\ last.ends = "returns") => last.inferredType # None

(* C10 -- every entry of the program's errors collector has the location   *)
(* and message of a node whose errorMsg is that message, no two entries    *)
(* belong to the same node, and the checker's own list holds the same      *)
(* messages: a second addError on a node adds nothing.                     *)
C10_ErrorsAnchored ==
    /\ \A k \in 1..Len(progErrors) :
           /\ progErrors[k].location \in DOMAIN errorMsg
           /\ errorMsg[progErrors[k].location] = progErrors[k].message
           /\ progErrors[k].message.location = progErrors[k].location
    /\ \A k \in 1..Len(progErrors) : \A m \in 1..Len(progErrors) :
           progErrors[k].location = progErrors[m].location => k = m
    /\ Len(progErrors) = Cardinality(DOMAIN errorMsg)
    /\ errors = [k \in 1..Len(progErrors) |-> progErrors[k].message]

\* IndexExpr has called addError twice on its node, and one entry stands
C10_Witness ==
    /\ last # None /\ last.kind = "IndexExpr"
    /\ statements[Len(statements)].index # IntType
    /\ ~isListValueType(statements[Len(statements)].list)
    /\ statements[Len(statements)].list # StrType
    /\ Len(progErrors) = 1
    /\ errorMsg[last.node].text = "Expected int index"

(* C11 -- a second pass, by a new checker over the AST the first pass has  *)
(* annotated, leaves the program's errors collector at the length it had   *)
(* after the first pass.                                                   *)
C11_SecondPassSameCount ==
    (annotated # None /\ pc = "done") => Len(progErrors) = annotated.errors

(* C12 -- the scope stack is never empty: exitScope has never popped the   *)
(* global frame.                                                           *)
C12_GlobalFrameKept ==
    Len(symbolTable) >= 1

\* a FuncDef has been visited to its end, through enterScope and exitScope
C12_Witness ==
    /\ pc = "visit"
    /\ \E i \in 1..(next - 1) :
           /\ declarations[i].kind = "FuncDef"
           /\ IdentifierOf(i) \notin DOMAIN errorMsg
    /\ Len(symbolTable) = 1

(* C13 -- frame 0 binds print, input and len to their built-in function    *)
(* types in every state of a pass.                                         *)
C13_BuiltinsBound ==
    \A n \in {"print", "input", "len"} :
        Lookup(symbolTable[1], n) = StandardLibrary[n]

(* C14 -- between the visits of top-level declarations, and once Program   *)
(* has completed, the scope stack holds exactly the global frame: FuncDef  *)
(* leaves the stack at the depth it found.                                 *)
C14_ScopeDepthRestored ==
    pc \in {"visit", "statements", "done"} => Len(symbolTable) = 1

\* the node carries the message text
ErrorAt(node, text) == node \in DOMAIN errorMsg /\ errorMsg[node].text = text

\* the second loop of Program has visited declarations[i]: it has come to
\* it and has not found an error on its identifier from the first loop
Visited(i) ==
    /\ i \in 1..Len(declarations)
    /\ pc # "declare"
    /\ i < next
    /\ ~ErrorAt(IdentifierOf(i), "Duplicate declaration of identifier")

VisitedFuncDefs == {i \in 1..Len(declarations) :
                       Visited(i) /\ declarations[i].kind = "FuncDef"}

\* the global or nonlocal declaration with index i has failed
FailedDecl(i) ==
    \/ ErrorAt(IdentifierOf(i), "Unknown global variable")
    \/ ErrorAt(IdentifierOf(i), "Unknown nonlocal variable")

\* the declarations of f bind name to a value type by a VarDef
BindsLocal(i, f, name) ==
    \E j \in 1..Len(f.declarations) :
        /\ f.declarations[j].kind = "VarDef"
        /\ f.declarations[j].name = name
        /\ IdentifierOf(Child(i, j)) \notin DOMAIN errorMsg

\* in the function f with index i, a global or nonlocal declaration of a
\* name has failed and a statement of f reads that name
ReadsAfterFailedDecl(i, f, k, m) ==
    /\ k \in 1..Len(f.declarations)
    /\ m \in 1..Len(f.statements)
    /\ f.declarations[k].kind \in {"GlobalDecl", "NonLocalDecl"}
    /\ FailedDecl(Child(i, k))
    /\ f.statements[m] = IdentifierNode(f.declarations[k].name)
    /\ f.declarations[k].name # f.name
    /\ \A n \in 1..Len(f.params) : f.params[n].name # f.declarations[k].name

(* C16 -- a global or nonlocal declaration of X that fails binds nothing:  *)
(* a read of X in the function still finds the value-type binding that an  *)
(* enclosing frame (the global frame, or the frame of the enclosing         *)
(* function) has for X.                                                     *)
C16_FailedDeclarationBindsNothing ==
    \A i \in VisitedFuncDefs :
        LET f == declarations[i] IN
        /\ \A k \in 1..Len(f.declarations) : \A m \in 1..Len(f.statements) :
               (/\ ReadsAfterFailedDecl(i, f, k, m)
                /\ isValueType(Lookup(symbolTable[1], f.declarations[k].name)))
               => StmtPartOf(i, m, "expr") \notin DOMAIN errorMsg
        /\ \A j \in 1..Len(f.declarations) :
               f.declarations[j].kind = "FuncDef" =>
                   LET g == f.declarations[j] IN
                   \A k \in 1..Len(g.declarations) : \A m \in 1..Len(g.statements) :
                       (/\ ReadsAfterFailedDecl(Child(i, j), g, k, m)
                        /\ BindsLocal(i, f, g.declarations[k].name))
                       => StmtPartOf(Child(i, j), m, "expr") \notin DOMAIN errorMsg

\* the function f with index i binds name to a value type in its own frame:
\* by a parameter, a VarDef, or a global or nonlocal declaration that
\* has succeeded
BindsValue(i, f, name) ==
    \/ \E n \in 1..Len(f.params) :
           f.params[n].name = name /\ ParamOf(i, n) \notin DOMAIN errorMsg
    \/ \E j \in 1..Len(f.declarations) :
           /\ f.declarations[j].kind \in {"VarDef", "GlobalDecl", "NonLocalDecl"}
           /\ f.declarations[j].name = name
           /\ IdentifierOf(Child(i, j)) \notin DOMAIN errorMsg

\* the nonlocal declarations of the function f with index i that are not
\* duplicates of another declaration of f
NonLocalDecls(i, f) ==
    {k \in 1..Len(f.declarations) :
        /\ f.declarations[k].kind = "NonLocalDecl"
        /\ ~ErrorAt(IdentifierOf(Child(i, k)), "Duplicate declaration of identifier")}

\* the functions nested in f whose bodies FuncDef has checked
InnerFuncDefs(f) ==
    {j \in 1..Len(f.declarations) :
        /\ f.declarations[j].kind = "FuncDef"
        /\ f.declarations[j].name \notin DOMAIN classes}

(* C17 -- a nonlocal declaration of x in a function declared at top level  *)
(* always yields 'Unknown nonlocal variable'; in a nested function it      *)
(* succeeds exactly when a function that encloses it binds x to a value    *)
(* type in its own frame.                                                  *)
C17_NonLocalScan ==
    \A i \in VisitedFuncDefs :
        LET f == declarations[i] IN
        /\ \A k \in NonLocalDecls(i, f) :
               ErrorAt(IdentifierOf(Child(i, k)), "Unknown nonlocal variable")
        /\ \A j \in InnerFuncDefs(f) :
               LET g == f.declarations[j]
                   ig == Child(i, j)
               IN  /\ \A k \in NonLocalDecls(ig, g) :
                          ErrorAt(IdentifierOf(Child(ig, k)), "Unknown nonlocal variable")
                          <=> ~BindsValue(i, f, g.declarations[k].name)
                   /\ \A l \in InnerFuncDefs(g) :
                          LET h == g.declarations[l]
                              ih == Child(ig, l)
                          IN  \A k \in NonLocalDecls(ih, h) :
                                  ErrorAt(IdentifierOf(Child(ih, k)),
                                          "Unknown nonlocal variable")
                                  <=> ~(\/ BindsValue(i, f, h.declarations[k].name)
                                        \/ BindsValue(ig, g, h.declarations[k].name))

\* the statement has isReturn = true once its rule has been applied
HasIsReturn(st) ==
    \/ st.kind = "ReturnStmt"
    \/ /\ st.kind = "IfStmt"
       /\ st.condition = BoolType
       /\ \E n \in 1..Len(st.thenBody) : st.thenBody[n]
       /\ \E n \in 1..Len(st.elseBody) : st.elseBody[n]
    \/ /\ st.kind = "WhileStmt"
       /\ st.condition = BoolType
       /\ \E n \in 1..Len(st.body) : st.body[n]
    \/ /\ st.kind = "ForStmt"
       /\ \/ isListValueType(st.iterable)
             /\ canAssign(st.iterable.elementType, st.identifier)
          \/ st.iterable = StrType /\ canAssign(StrType, st.identifier)
       /\ \E n \in 1..Len(st.body) : st.body[n]

\* the function f with index i must return a value and no top-level
\* statement of its body returns
LacksReturn(f) ==
    /\ f.returnType \in {"int", "str", "bool"}
    /\ \A m \in 1..Len(f.statements) : ~HasIsReturn(f.statements[m])

(* C18 -- for every function whose body has been checked, 'Expected return *)
(* statement' is on its identifier exactly when its declared return type   *)
(* is int, str or bool and no top-level statement of its body has          *)
(* isReturn = true.                                                        *)
C18_MissingReturnReported ==
    \A i \in VisitedFuncDefs :
        LET f == declarations[i] IN
        f.name \notin DOMAIN classes =>
            /\ ErrorAt(IdentifierOf(i), "Expected return statement") <=> LacksReturn(f)
            /\ \A j \in InnerFuncDefs(f) :
                   ErrorAt(IdentifierOf(Child(i, j)), "Expected return statement")
                   <=> LacksReturn(f.declarations[j])

\* the function f with index i binds name in its own frame: to a value
\* type, or to a function type, as its own name or that of a nested function
BindsName(i, f, name) ==
    \/ BindsValue(i, f, name)
    \/ ~f.isMethod /\ f.name = name
    \/ \E j \in 1..Len(f.declarations) :
           /\ f.declarations[j].kind = "FuncDef"
           /\ f.declarations[j].name = name
           /\ ~ErrorAt(IdentifierOf(Child(i, j)), "Duplicate declaration of identifier")

(* C19 -- in the body of a function, an assignment to the Identifier x has *)
(* 'Identifier not defined in current scope' on its target exactly when    *)
(* the function does not bind x in its own frame.                          *)
C19_AssignInCurrentScope ==
    \A i \in VisitedFuncDefs :
        LET f == declarations[i] IN
        f.name \notin DOMAIN classes =>
            \A m \in 1..Len(f.statements) :
                f.statements[m].kind = "AssignStmt" =>
                    (ErrorAt(StmtPartOf(i, m, "target"),
                             "Identifier not defined in current scope")
                     <=> ~BindsName(i, f, f.statements[m].name))

\* the class definition declarations[i] has failed its superclass checks
FailedSuperclass(i) ==
    \/ ErrorAt(SuperclassOf(i), "Unknown superclass")
    \/ ErrorAt(SuperclassOf(i), "Illegal superclass")

(* C15 -- a class whose every definition has an unknown or illegal         *)
(* superclass is never in the class registry: classExists stays false for  *)
(* it, also after its body has been processed.                             *)
C15_FailedClassNotRegistered ==
    \A c \in DOMAIN classes \ DOMAIN DefaultClasses :
        \E i \in 1..Len(declarations) :
            /\ declarations[i].kind = "ClassDef"
            /\ declarations[i].name = c
            /\ ~FailedSuperclass(i)

\* the registered classes c is a proper subclass of
RegisteredAncestors(c) == ProperAncestors(c) \cap DOMAIN classes

(* C20 -- after the pass, no class binds a name as an attribute while a    *)
(* proper ancestor binds the name, and no class binds a method over an     *)
(* attribute of a proper ancestor.                                         *)
C20_NoMemberClash ==
    pc = "done" =>
        \A c \in DOMAIN classes : \A name \in DOMAIN classes[c] :
            \A anc \in RegisteredAncestors(c) :
                name \in DOMAIN classes[anc] =>
                    isFuncType(classes[c][name]) /\ isFuncType(classes[anc][name])

\* the nearest entry for name that the class c inherits, None when no proper
\* ancestor of c binds name
Inherited(c, name) ==
    IF LookupClass(superclasses, c) = NoClass THEN None
    ELSE getAttrOrMethod(classes, LookupClass(superclasses, c), name).value

(* C21 -- after the pass, a method registered in a class's own entry that  *)
(* a proper ancestor also registers is inherited as a function type that   *)
(* is method-equal to it: same return type, same parameter types but for   *)
(* the first.                                                              *)
C21_OverridesMethodEqual ==
    pc = "done" =>
        \A c \in DOMAIN classes : \A m \in DOMAIN classes[c] :
            (isFuncType(classes[c][m]) /\ Inherited(c, m) # None) =>
                /\ isFuncType(Inherited(c, m))
                /\ methodEquals(Inherited(c, m), classes[c][m])

\* what the flags of the bodies of the statement st make of its isReturn
BodiesReturn(st) ==
    IF st.kind = "IfStmt"
    THEN /\ \E n \in 1..Len(st.thenBody) : st.thenBody[n]
         /\ \E n \in 1..Len(st.elseBody) : st.elseBody[n]
    ELSE \E n \in 1..Len(st.body) : st.body[n]

(* C22 -- for every if, while and for statement of a function body that    *)
(* has been checked, isReturn after the check is what the flags of its     *)
(* bodies make it: both branches of an if have a returning statement, the  *)
(* body of a loop has one; whatever the condition or the iterable.         *)
C22_IsReturnFromBodies ==
    \A i \in VisitedFuncDefs :
        \A m \in 1..Len(declarations[i].statements) :
            LET st == declarations[i].statements[m] IN
            st.kind \in {"IfStmt", "WhileStmt", "ForStmt"} =>
                visitStatement(Self, i, m, st).isReturn = BodiesReturn(st)

\* the last rule applied was CallExpr, on a name that is not a class, and
\* it returned
CalledFunction ==
    /\ last # None
    /\ last.kind = "CallExpr"
    /\ last.ends = "returns"
    /\ statements[Len(statements)].function \notin DOMAIN classes

(* C23 -- a call of a name that is not a class gets the function's return  *)
(* type when it is accepted; when it gets a diagnostic (not a function,     *)
(* wrong number of arguments, an argument that is not assignable) its       *)
(* inferredType is object.                                                  *)
C23_FailedCallIsObject ==
    CalledFunction =>
        IF last.node \in DOMAIN errorMsg
        THEN last.inferredType = OBJECT_TYPE
        ELSE last.inferredType
                 = getType(Self, statements[Len(statements)].function).returnType

(* C24 -- the rule of an if expression returns without raising, sets the   *)
(* node's inferredType to the join of the types of its two branches, and   *)
(* records a diagnostic exactly when the condition's type is not bool.     *)
C24_IfExprJoins ==
    (last # None /\ last.kind = "IfExpr") =>
        LET e == statements[Len(statements)] IN
        /\ last.ends = "returns"
        /\ last.inferredType = join(e.thenExpr, e.elseExpr)
        /\ (e.condition # BoolType) <=> (last.node \in DOMAIN errorMsg)

\* the function f with index i has no parameters and no declarations, and
\* its body is an assignment to a name, which is rejected, and then a read
\* of the name
ReadsAfterRejectedAssign(i, f) ==
    /\ f.params = <<>>
    /\ f.declarations = <<>>
    /\ f.name \notin DOMAIN classes
    /\ Len(f.statements) = 2
    /\ f.statements[1].kind = "AssignStmt"
    /\ f.statements[2].kind = "Identifier"
    /\ f.statements[2].name = f.statements[1].name
    /\ ErrorAt(StmtPartOf(i, 1, "target"), "Identifier not defined in current scope")

(* C25 -- defInCurrentScope on a name the current frame does not bind       *)
(* leaves later lookups as they were: in a function, after a rejected       *)
(* assignment to a variable bound only in the global frame, the read of     *)
(* the variable still finds the global binding.                             *)
C25_QueriesKeepLookups ==
    \A i \in VisitedFuncDefs :
        LET f == declarations[i] IN
        (/\ ReadsAfterRejectedAssign(i, f)
         /\ isValueType(Lookup(symbolTable[1], f.statements[2].name)))
            => ~ErrorAt(StmtPartOf(i, 2, "expr"), "Unknown identifier")

====
